---- MODULE Spec2Model ----
(***************************************************************************)
(* State-machine model of the DpuClusterConfig reconciler                  *)
(* (controllers/config_controller.go).                                     *)
(*                                                                         *)
(* One reconciler object (DpuClusterConfigReconciler) with its in-memory   *)
(* syncer handle, the cluster objects it reads and writes, and the passes  *)
(* (Reconcile calls) of the controller workers.  A pass is modelled phase  *)
(* by phase: every phase function of ReconcileDpuClusterConfig is one      *)
(* action; the deferred status flush is the last step of a pass.           *)
(***************************************************************************)
EXTENDS Integers, Sequences, FiniteSets, TLC

VARIABLES
    cfgs,              \* namespace -> list of DpuClusterConfig objects stored in the cluster
    mcpStore,          \* the MachineConfigPool named by the pool name, or NoMcp
    mcStore,           \* the MachineConfig "00-<pool>-bluefield-switchdev", or NoMc
    syncer,            \* r.syncer: NilSyncer or the task the handle points to
    tasks,             \* task id -> "free" | "launched" | "running" | "exited"
    goPending,         \* goroutines spawned at line 253 that have not yet called Start
    crashed,           \* the process died of a panic
    pc,                \* worker -> position in its pass
    req,               \* worker -> namespace of the request
    nItems,            \* worker -> len(cfgList.Items) of the pass (-1: not listed)
    obj,               \* worker -> the in-memory copy &cfgList.Items[0]
    ret,               \* worker -> the error value the pass returns (Nil: no error)
    trace,             \* worker -> the calls and condition writes of the pass, in order
    masterIPs,         \* the pod IPs getTenantClusterMasterIPs returned last
    dbLists            \* data.Data["OVN_NB_DB_LIST"] and ["OVN_SB_DB_LIST"], or NotRendered

vars == <<cfgs, mcpStore, mcStore, syncer, tasks, goPending,
          crashed, pc, req, nItems, obj, ret, trace, masterIPs, dbLists>>

taskVars == <<syncer, tasks, goPending>>
procVars == <<syncer, tasks, goPending, crashed>>
clusterVars == <<cfgs, mcpStore, mcStore>>
renderVars == <<masterIPs, dbLists>>
passVars == <<pc, req, nItems, obj, ret, trace>>

(***************************************************************************)
(* Bounds of the model.                                                    *)
(***************************************************************************)
MaxCfgs == 2      \* configuration objects per namespace
MaxTasks == 2     \* task objects alive at one time
MaxPending == 1   \* spawned goroutines not yet scheduled
MaxNodes == 1     \* DaemonSet desired / ready counts range over 0..MaxNodes
MaxMasters == 3   \* ovnkube-master pods listed in the tenant cluster

Nil == "nil"

NS == {"ns1", "ns2"}
Workers == {"w1", "w2"}
TaskIds == 1..MaxTasks

\* The nil *syncer.OvnkubeSyncer (task ids start at 1).
NilSyncer == 0

(***************************************************************************)
(* Constants of the program.                                               *)
(***************************************************************************)
dpuMcRole == "dpu-worker"
MachineConfigRoleLabelKey == "machineconfiguration.openshift.io/role"
ReservedPoolNames_MasterOnly == {"master"}
ReservedPoolNames == {"master", "worker"}

\* Condition types and reasons used through api.Conditions().
CondTypes == {"McpReady", "TenantObjsSynced", "OvnKubeReady"}
NoCond == [status |-> "Unknown", reason |-> "", msg |-> ""]
NoConds == [t \in CondTypes |-> NoCond]

\* Error values.  The errors of one phase that lead to the same condition
\* reason are one value; the call that failed is in the trace of the pass.
ErrList == "list failed"
ErrPoolName == "PoolName not provided"
ErrNodeSelector == "Missing node selector"
ErrNoKubeconfig == "No Kubeconfig provided for Tenant cluster"
ErrReserved == "pools is not allowed"
ErrSyncMc == "couldn't sync MachineConfigPool / MachineConfig"
ErrSetup == "tenant syncer not constructed"
ErrStart == "syncer.Start failed"
ErrNotSynced == "tenant object not found"
ErrSyncDs == "ovnkube daemonset not synced"
ErrGetDs == "DaemonSet ovnkube-node not readable"
ErrRollingOut == "DaemonSet 'ovnkube-node' is rolling out"

(***************************************************************************)
(* Configuration objects.                                                  *)
(***************************************************************************)
ValidSpec == [PoolName |-> "dpu", NodeSelector |-> "selA", KubeConfigFile |-> "kc"]

\* The specs an operator may create: the valid one and each single defect.
CfgSpecs ==
    { ValidSpec,
      [ValidSpec EXCEPT !.PoolName = ""],
      [ValidSpec EXCEPT !.PoolName = "master"],
      [ValidSpec EXCEPT !.PoolName = "worker"],
      [ValidSpec EXCEPT !.NodeSelector = ""],
      [ValidSpec EXCEPT !.KubeConfigFile = ""] }

NewCfg(ns, s) == [Namespace |-> ns, Spec |-> s, Status |-> NoConds]

\* dpuClusterConfig.SetStatus(cond): the condition replaces the one of its type.
SetStatus(o, type, status, reason, msg) ==
    [o EXCEPT !.Status[type] = [status |-> status, reason |-> reason, msg |-> msg]]

(***************************************************************************)
(* Events of a pass.                                                       *)
(***************************************************************************)
Ev(ph, op, kind, ok) == [ph |-> ph, op |-> op, kind |-> kind, ok |-> ok, arg |-> <<>>]
EvA(ph, op, kind, ok, arg) == [ph |-> ph, op |-> op, kind |-> kind, ok |-> ok, arg |-> arg]
CondEv(ph, type, status, reason, msg) ==
    [ph |-> ph, op |-> "SetStatus", kind |-> type, ok |-> "ok", arg |-> <<status, reason, msg>>]

(***************************************************************************)
(* Node-configuration payload (MachineConfig.Spec.Config.Raw).             *)
(* A payload is its serialized form: a sequence of <<field, value>> pairs  *)
(* in serialization order.  The empty sequence is an empty Raw, which      *)
(* json.Unmarshal rejects.                                                 *)
(***************************************************************************)
Reverse(s) == [i \in 1..Len(s) |-> s[Len(s) + 1 - i]]

RenderedRaw == << <<"path", "/etc/switchdev">>, <<"contents", "A">> >>
OtherRaw == << <<"path", "/etc/switchdev">>, <<"contents", "B">> >>
Raws == {RenderedRaw, Reverse(RenderedRaw), OtherRaw, Reverse(OtherRaw), <<>>}

\* json.Unmarshal(raw, &ign) into an interface{}: a map keyed by field name (a
\* repeated field keeps its last value); on a decoding error ign stays nil.
Unmarshal(raw) ==
    IF raw = <<>>
    THEN [isNil |-> TRUE, tree |-> {}]
    ELSE [isNil |-> FALSE,
          tree |-> { raw[i] : i \in { j \in 1..Len(raw) :
                         \A k \in (j + 1)..Len(raw) : raw[k][1] # raw[j][1] } }]

\* reflect.DeepEqual(foundIgn, renderedIgn), lines 414-416.
IgnDeepEqual_Bytes(found, rendered) == found = rendered
IgnDeepEqual(found, rendered) == Unmarshal(found) = Unmarshal(rendered)

\* rv: the resource version, counted in writes since the initial state.
Mc(raw, rv) == [exists |-> TRUE, Raw |-> raw, rv |-> rv]
NoMc == [exists |-> FALSE, Raw |-> <<>>, rv |-> 0]

(***************************************************************************)
(* Node pool (MachineConfigPool).                                          *)
(***************************************************************************)
\* metav1.ParseToLabelSelector("<role key> in (worker,dpu-worker)"), line 352.
mcSelector ==
    [key |-> MachineConfigRoleLabelKey, operator |-> "In", values |-> {"worker", dpuMcRole}]
StaleMcSelector ==
    [key |-> MachineConfigRoleLabelKey, operator |-> "In", values |-> {"worker"}]

Mcp(ms, sel) == [exists |-> TRUE, MachineConfigSelector |-> ms, NodeSelector |-> sel]
NoMcp == [exists |-> FALSE, MachineConfigSelector |-> mcSelector, NodeSelector |-> ""]

\* The outcome of a Get: the object's presence, or an error other than NotFound.
GetOutcomes(o) == {"error"} \cup (IF o.exists THEN {"found"} ELSE {"notfound"})

\* Line 375: the pool needs no update.
McpUpToDate(found, cs) ==
    /\ found.MachineConfigSelector = mcSelector
    /\ found.NodeSelector = cs.NodeSelector

\* Lines 364-385: get the pool; create it when not found, update it on mismatch.
\* A Get error other than NotFound falls through both branches.
PoolResults(cs, store) ==
    LET desired == Mcp(mcSelector, cs.NodeSelector)
        ph == "NodePool"
        Get(res) == Ev(ph, "Get", "MachineConfigPool", res)
    IN  UNION { CASE g = "notfound" ->
                      { [err |-> Nil, store |-> desired,
                         evs |-> <<Get(g), Ev(ph, "Create", "MachineConfigPool", "ok")>>],
                        [err |-> ErrSyncMc, store |-> store,
                         evs |-> <<Get(g), Ev(ph, "Create", "MachineConfigPool", "error")>>] }
                  [] g = "error" ->
                      { [err |-> Nil, store |-> store, evs |-> <<Get(g)>>] }
                  [] g = "found" ->
                      IF McpUpToDate(store, cs)
                      THEN { [err |-> Nil, store |-> store, evs |-> <<Get(g)>>] }
                      ELSE { [err |-> Nil, store |-> desired,
                              evs |-> <<Get(g), Ev(ph, "Update", "MachineConfigPool", "ok")>>],
                             [err |-> ErrSyncMc, store |-> store,
                              evs |-> <<Get(g), Ev(ph, "Update", "MachineConfigPool", "error")>>] }
              : g \in GetOutcomes(store) }

\* Line 419: the resource version the update carries.
UpdateResourceVersion(found) == found.rv

\* Lines 387-428: render the payload, get the stored one; create it when not
\* found, update it when the decoded trees differ.
McResults(store) ==
    LET ph == "NodePool"
        Get(res) == Ev(ph, "Get", "MachineConfig", res)
    IN  { [err |-> ErrSyncMc, store |-> store, evs |-> <<>>] } \cup
        UNION { CASE g = "notfound" ->
                      { [err |-> Nil, store |-> Mc(RenderedRaw, store.rv + 1),
                         evs |-> <<Get(g), Ev(ph, "Create", "MachineConfig", "ok")>>],
                        [err |-> ErrSyncMc, store |-> store,
                         evs |-> <<Get(g), Ev(ph, "Create", "MachineConfig", "error")>>] }
                  [] g = "error" ->
                      { [err |-> ErrSyncMc, store |-> store, evs |-> <<Get(g)>>] }
                  [] g = "found" ->
                      IF IgnDeepEqual(store.Raw, RenderedRaw)
                      THEN { [err |-> Nil, store |-> store, evs |-> <<Get(g)>>] }
                      ELSE LET rv == UpdateResourceVersion(store)
                               Upd(res) == EvA(ph, "Update", "MachineConfig", res, <<rv>>)
                           IN  (IF rv = store.rv
                                THEN { [err |-> Nil, store |-> Mc(RenderedRaw, store.rv + 1),
                                        evs |-> <<Get(g), Upd("ok")>>] }
                                ELSE {}) \cup
                               { [err |-> ErrSyncMc, store |-> store,
                                  evs |-> <<Get(g), Upd("error")>>] }
              : g \in GetOutcomes(store) }

\* syncMachineConfigObjs, lines 346-429.
syncMachineConfigObjs(cs, mcp, mc) ==
    IF cs.PoolName \in ReservedPoolNames
    THEN { [err |-> ErrReserved, evs |-> <<>>, mcp |-> mcp, mc |-> mc] }
    ELSE UNION { IF p.err # Nil
                 THEN { [err |-> p.err, evs |-> p.evs, mcp |-> p.store, mc |-> mc] }
                 ELSE { [err |-> m.err, evs |-> p.evs \o m.evs, mcp |-> p.store, mc |-> m.store]
                        : m \in McResults(mc) }
               : p \in PoolResults(cs, mcp) }


(***************************************************************************)
(* Remote-sync task (startTenantSyncerIfNeeded, isTenantObjsSynced).       *)
(***************************************************************************)
FreeIds(tk) == { t \in TaskIds : tk[t] = "free" }
LeastFree(tk) == CHOOSE t \in FreeIds(tk) : \A u \in FreeIds(tk) : t <= u

\* Line 222: the gate on the handle.
SyncerHeld_Never(h) == FALSE
SyncerHeld(h) == h # NilSyncer

\* startTenantSyncerIfNeeded, lines 221-263, from handle h, tasks tk and gp
\* pending goroutines.  Each result: the returned error, the calls made and the
\* new values.  syncer.New is taken to return a nil
\* handle together with its error.  The goroutine of line 253 shares the
\* variable err with line 258: when it has already run Start and Start has
\* failed, line 258 reads that error.
startTenantSyncerIfNeeded(h, tk, gp) ==
    LET ph == "RemoteSync"
        Same(e, evs) == [err |-> e, evs |-> evs, syncer |-> h, tasks |-> tk,
                         goPending |-> gp]
        GetSecret(res) == EvA(ph, "Get", "Secret", res, <<"KubeConfigFile">>)
        GetOk == GetSecret("found")
        NewOk == Ev(ph, "New", "Syncer", "ok")
        Go == Ev(ph, "Go", "Syncer", "ok")
    IN  IF SyncerHeld(h)
        THEN { Same(Nil, <<>>) }
        ELSE { Same(ErrSetup, <<GetSecret(g)>>) : g \in {"notfound", "error"} }
             \* the key 'config' is missing, or its value does not decode
             \cup { Same(ErrSetup, <<GetSecret(g)>>) : g \in {"nokey", "undecodable"} }
             \cup { [Same(ErrSetup, <<GetOk, Ev(ph, "New", "Syncer", "error")>>)
                        EXCEPT !.syncer = NilSyncer] }
             \cup (IF FreeIds(tk) # {} /\ gp < MaxPending
                   THEN LET t == LeastFree(tk)
                        IN  { [err |-> Nil, evs |-> <<GetOk, NewOk, Go>>, syncer |-> t,
                               tasks |-> [tk EXCEPT ![t] = "launched"],
                               goPending |-> gp + 1],
                              [err |-> ErrStart, evs |-> <<GetOk, NewOk, Go>>, syncer |-> t,
                               tasks |-> [tk EXCEPT ![t] = "exited"],
                               goPending |-> gp] }
                   ELSE {})

\* The three mirrored objects, in the order isTenantObjsSynced reads them.
TenantObjs == <<"CmNameOvnCa", "CmNameOvnkubeConfig", "SecretNameOvnCert">>
TenantObjKinds == <<"ConfigMap", "ConfigMap", "Secret">>

\* isTenantObjsSynced, lines 452-468: the first failing Get ends it.
isTenantObjsSynced ==
    LET ph == "RemoteSync"
        Found(k) == [i \in 1..k |-> EvA(ph, "Get", TenantObjKinds[i], "found", <<TenantObjs[i]>>)]
    IN  { [err |-> Nil, evs |-> Found(Len(TenantObjs))] } \cup
        { [err |-> ErrNotSynced,
           evs |-> Append(Found(k - 1), EvA(ph, "Get", TenantObjKinds[k], g, <<TenantObjs[k]>>))]
          : k \in 1..Len(TenantObjs), g \in {"notfound", "error"} }

(***************************************************************************)
(* Rollout (syncOvnkubeDaemonSet, checkDeamonSetState).                    *)
(***************************************************************************)
\* The kinds of the objects rendered from utils.OvnkubeNodeManifestPath.
OvnkubeNodeObjs == <<"ServiceAccount", "DaemonSet">>

\* Lines 303-332: the objects are applied in order; the first failing apply ends
\* the loop.  With an MCP that was never read (zeroMcp) the DaemonSet branch
\* dereferences the nil mcp.Spec.NodeSelector at line 313 and panics.
ApplyResults(zeroMcp) ==
    LET ph == "Rollout"
        n == Len(OvnkubeNodeObjs)
        Applied(k) == [i \in 1..k |-> EvA(ph, "Apply", OvnkubeNodeObjs[i], "ok", <<>>)]
        PanicAt == { k \in 1..n : zeroMcp /\ OvnkubeNodeObjs[k] = "DaemonSet" }
        Reaches(k) == \A j \in PanicAt : k < j
    IN  { [err |-> Nil, panic |-> FALSE, evs |-> Applied(n)] : k \in {n} \cap { j \in 1..n : Reaches(j) } }
        \cup { [err |-> ErrSyncDs, panic |-> FALSE,
                evs |-> Append(Applied(k - 1), EvA(ph, "Apply", OvnkubeNodeObjs[k], "error", <<>>))]
               : k \in { j \in 1..n : Reaches(j) } }
        \cup { [err |-> Nil, panic |-> TRUE, evs |-> Applied(k - 1)]
               : k \in { j \in PanicAt : \A i \in PanicAt : j <= i } }

\* Lines 276-280: what a failed lookup of the master IPs returns.
MasterIPsFailure == Nil

\* syncOvnkubeDaemonSet, lines 265-334.
syncOvnkubeDaemonSet(mcp) ==
    LET ph == "Rollout"
        R(e, evs) == [err |-> e, panic |-> FALSE, evs |-> evs]
    IN  UNION { IF g = "notfound"
                THEN { R(ErrSyncDs, <<Ev(ph, "Get", "MachineConfigPool", g)>>) }
                ELSE LET get == <<Ev(ph, "Get", "MachineConfigPool", g)>>
                         list == get \o <<Ev(ph, "List", "Pod", "ok")>>
                     IN  \* client.New fails: no call is made
                         { R(MasterIPsFailure, get) }
                         \cup (
                           { R(MasterIPsFailure, get \o <<Ev(ph, "List", "Pod", "error")>>) }
                           \cup { R(ErrSyncDs, list \o <<Ev(ph, "Get", "LocalDaemonSet", "error")>>) }
                           \cup UNION { { R(ErrSyncDs, list \o img) }
                                        \cup { [err |-> a.err, panic |-> a.panic,
                                                evs |-> list \o img \o a.evs]
                                               : a \in ApplyResults(g = "error") }
                                      : img \in { <<>>, <<Ev(ph, "Get", "LocalDaemonSet", "found")>> } })
              : g \in GetOutcomes(mcp) }

\* Line 188: the readiness test.
DaemonSetReady_Always(desired, ready) == TRUE
DaemonSetReady_Never(desired, ready) == FALSE
DaemonSetReady(desired, ready) == desired = ready

\* checkDeamonSetState, lines 183-192.
checkDeamonSetState ==
    LET ph == "Rollout"
    IN  { [err |-> ErrGetDs, evs |-> <<EvA(ph, "Get", "DaemonSet", g, <<>>)>>]
          : g \in {"notfound", "error"} }
        \cup { [err |-> IF DaemonSetReady(d, r) THEN Nil ELSE ErrRollingOut,
                evs |-> <<EvA(ph, "Get", "DaemonSet", "found", <<d, r>>)>>]
               : d \in 0..MaxNodes, r \in 0..MaxNodes }


(***************************************************************************)
(* The endpoint lists of the rendered manifests (dbList, lines 470-476).   *)
(* A string is the sequence of its characters.                             *)
(***************************************************************************)
OVN_NB_PORT == <<"9", "6", "4", "1">>
OVN_SB_PORT == <<"9", "6", "4", "2">>

\* pod.Status.PodIP of a listed pod: IPv4, IPv6, or empty while the pod has
\* no address yet.
PodIPs == { <<"1", ".", "2">>, <<"1", ".", "3">>, <<"f", ":", ":", "1">>, <<>> }

\* net.JoinHostPort: a host that contains a colon is put in brackets.
JoinHostPort(host, port) ==
    IF \E i \in DOMAIN host : host[i] = ":"
    THEN <<"[">> \o host \o <<"]", ":">> \o port
    ELSE host \o <<":">> \o port

\* strings.Join(addrs, sep)
RECURSIVE Join(_, _)
Join(addrs, sep) ==
    IF Len(addrs) = 0 THEN <<>>
    ELSE IF Len(addrs) = 1 THEN addrs[1]
    ELSE addrs[1] \o sep \o Join(Tail(addrs), sep)

\* dbList, lines 470-476.
dbList_TrailingSeparator(ips, port) ==
    Join([i \in 1..Len(ips) |-> <<"s", "s", "l", ":">> \o JoinHostPort(ips[i], port) \o <<",">>],
         <<>>)
dbList(ips, port) ==
    Join([i \in 1..Len(ips) |-> <<"s", "s", "l", ":">> \o JoinHostPort(ips[i], port)], <<",">>)

NotRendered == [nb |-> <<"?">>, sb |-> <<"?">>]

(***************************************************************************)
(* Initial state: an empty set of configuration objects, a fresh process,  *)
(* and whatever pool and payload earlier deployments left in the cluster.  *)
(***************************************************************************)
IdleLocals ==
    /\ pc = [w \in Workers |-> "idle"]
    /\ req = [w \in Workers |-> Nil]
    /\ nItems = [w \in Workers |-> -1]
    /\ obj = [w \in Workers |-> NewCfg(Nil, ValidSpec)]
    /\ ret = [w \in Workers |-> Nil]
    /\ trace = [w \in Workers |-> <<>>]

FreshProcess ==
    /\ syncer = NilSyncer
    /\ tasks = [t \in TaskIds |-> "free"]
    /\ goPending = 0
    /\ crashed = FALSE

Init ==
    /\ cfgs = [ns \in NS |-> <<>>]
    /\ mcpStore \in {NoMcp, Mcp(mcSelector, "selB"), Mcp(StaleMcSelector, "selA")}
    /\ mcStore \in {NoMc} \cup { Mc(r, 0) : r \in Raws }
    /\ FreshProcess
    /\ IdleLocals
    /\ masterIPs = <<>>
    /\ dbLists = NotRendered

\* The pass goes on with the next phase.
Continue(w, l, o, evs) ==
    /\ pc' = [pc EXCEPT ![w] = l]
    /\ obj' = [obj EXCEPT ![w] = o]
    /\ trace' = [trace EXCEPT ![w] = @ \o evs]
    /\ UNCHANGED <<cfgs, ret, crashed>>

\* What r.Status().Update can answer for the object of namespace ns.
StatusUpdateOutcomes(ns) == {"error"} \cup (IF Len(cfgs[ns]) >= 1 THEN {"ok"} ELSE {})

\* The value ReconcileDpuClusterConfig returns with e when the status update
\* answered u: the deferred function only logs.
Returned(e, u) == e

\* ReconcileDpuClusterConfig returns e (lines 126, 130, 134, 138, 142, 145):
\* the deferred function of lines 118-122 writes the status of the in-memory
\* object o.  A panic unwinds through the same deferred function and ends the
\* process.
ReturnDeferred_NoFlush(w, e, o, evs, panic) ==
    /\ pc' = [pc EXCEPT ![w] = "done"]
    /\ obj' = [obj EXCEPT ![w] = o]
    /\ ret' = [ret EXCEPT ![w] = e]
    /\ crashed' = panic
    /\ cfgs' = cfgs
    /\ trace' = [trace EXCEPT ![w] = @ \o evs]
ReturnDeferred(w, e, o, evs, panic) ==
    /\ pc' = [pc EXCEPT ![w] = "done"]
    /\ obj' = [obj EXCEPT ![w] = o]
    /\ crashed' = panic
    /\ \E u \in StatusUpdateOutcomes(req[w]) :
          /\ ret' = [ret EXCEPT ![w] = Returned(e, u)]
          /\ cfgs' = IF u = "ok" THEN [cfgs EXCEPT ![req[w]][1].Status = o.Status] ELSE cfgs
          /\ trace' = [trace EXCEPT ![w] =
                         @ \o evs \o <<Ev("Flush", "StatusUpdate", "DpuClusterConfig", u)>>]

(***************************************************************************)
(* Reconcile, lines 92-115: list the objects of the namespace and select.  *)
(***************************************************************************)
\* Line 104: the error returned when more than one object is listed; err is the
\* result of the List call, which succeeded.
MultipleCfgError(listErr) == listErr

\* Lines 107-112: no object is left.
StopSyncer_KeepHandle(h, tk) ==
    [syncer |-> h, tasks |-> IF h # NilSyncer THEN [tk EXCEPT ![h] = "free"] ELSE tk,
     evs |-> IF h # NilSyncer THEN <<Ev("Select", "Stop", "Syncer", "ok")>> ELSE <<>>]
StopSyncer(h, tk) ==
    IF h # NilSyncer
    THEN [syncer |-> NilSyncer, tasks |-> [tk EXCEPT ![h] = "free"],
          evs |-> <<Ev("Select", "Stop", "Syncer", "ok")>>]
    ELSE [syncer |-> h, tasks |-> tk, evs |-> <<>>]

\* Lines 102-106: an object is selected only when it is alone.
SelectOne_First(items) == Len(items) >= 1
SelectOne(items) == Len(items) = 1

Reconcile(w, ns) ==
    /\ UNCHANGED renderVars
    /\ ~crashed
    /\ pc[w] = "idle"
    /\ req' = [req EXCEPT ![w] = ns]
    /\ UNCHANGED <<clusterVars, goPending, crashed>>
    /\ \/ \* r.List fails, lines 99-101
          /\ nItems' = [nItems EXCEPT ![w] = -1]
          /\ trace' = [trace EXCEPT ![w] = <<Ev("Select", "List", "DpuClusterConfig", "error")>>]
          /\ ret' = [ret EXCEPT ![w] = ErrList]
          /\ pc' = [pc EXCEPT ![w] = "done"]
          /\ UNCHANGED <<syncer, tasks, obj>>
       \/ LET items == cfgs[ns]
              list == <<Ev("Select", "List", "DpuClusterConfig", "ok")>>
          IN  /\ nItems' = [nItems EXCEPT ![w] = Len(items)]
              /\ IF SelectOne(items)
                 THEN /\ obj' = [obj EXCEPT ![w] = items[1]]
                      /\ trace' = [trace EXCEPT ![w] = list]
                      /\ pc' = [pc EXCEPT ![w] = "validate"]
                      /\ UNCHANGED <<syncer, tasks, ret>>
                 ELSE IF Len(items) > 1
                 THEN /\ trace' = [trace EXCEPT ![w] = list]
                      /\ ret' = [ret EXCEPT ![w] = MultipleCfgError(Nil)]
                      /\ pc' = [pc EXCEPT ![w] = "done"]
                      /\ UNCHANGED <<syncer, tasks, obj>>
                 ELSE LET s == StopSyncer(syncer, tasks)
                      IN  /\ syncer' = s.syncer
                          /\ tasks' = s.tasks
                          /\ trace' = [trace EXCEPT ![w] = list \o s.evs]
                          /\ ret' = [ret EXCEPT ![w] = Nil]
                          /\ pc' = [pc EXCEPT ![w] = "done"]
                          /\ UNCHANGED obj

(***************************************************************************)
(* ReconcileDpuClusterConfig, lines 117-146, phase by phase.               *)
(***************************************************************************)
\* validateDPUHostBootstrap, lines 201-209 (called at line 124).
HostBootstrapError_NoSelector(cs) == IF cs.PoolName = "" THEN ErrPoolName ELSE Nil
HostBootstrapError(cs) ==
    IF cs.PoolName = "" THEN ErrPoolName
    ELSE IF cs.NodeSelector = "" THEN ErrNodeSelector
    ELSE Nil

validateDPUHostBootstrap(w) ==
    /\ UNCHANGED renderVars
    /\ ~crashed
    /\ pc[w] = "validate"
    /\ LET e == HostBootstrapError(obj[w].Spec)
       IN  IF e # Nil
           THEN ReturnDeferred(w, e, obj[w], <<>>, FALSE)
           ELSE Continue(w, "mcp", obj[w], <<>>)
    /\ UNCHANGED <<mcpStore, mcStore, taskVars, req, nItems>>

\* ensureMcpReady, lines 148-155 (called at line 128).
ensureMcpReady(w) ==
    /\ UNCHANGED renderVars
    /\ ~crashed
    /\ pc[w] = "mcp"
    /\ \E r \in syncMachineConfigObjs(obj[w].Spec, mcpStore, mcStore) :
          /\ mcpStore' = r.mcp
          /\ mcStore' = r.mc
          /\ IF r.err # Nil
             THEN ReturnDeferred(w, r.err,
                      SetStatus(obj[w], "McpReady", "False", "FailedCreated", r.err),
                      r.evs \o <<CondEv("NodePool", "McpReady", "False", "FailedCreated", r.err)>>,
                      FALSE)
             ELSE Continue(w, "kubeconfig",
                      SetStatus(obj[w], "McpReady", "True", "Created", ""),
                      r.evs \o <<CondEv("NodePool", "McpReady", "True", "Created", "")>>)
    /\ UNCHANGED <<taskVars, req, nItems>>

\* validateTenantKubeConfig, lines 194-199 (called at line 132).
TenantKubeConfigError_Skip(cs) == Nil
TenantKubeConfigError(cs) == IF cs.KubeConfigFile = "" THEN ErrNoKubeconfig ELSE Nil

validateTenantKubeConfig(w) ==
    /\ UNCHANGED renderVars
    /\ ~crashed
    /\ pc[w] = "kubeconfig"
    /\ LET e == TenantKubeConfigError(obj[w].Spec)
       IN  IF e # Nil
           THEN ReturnDeferred(w, e, obj[w], <<>>, FALSE)
           ELSE Continue(w, "tenant", obj[w], <<>>)
    /\ UNCHANGED <<mcpStore, mcStore, taskVars, req, nItems>>

\* ensureTenantObjsSynced, lines 157-168, for a pass that read the handle
\* seen at line 222.  r.syncer is written only by the assignment of line 244.
TenantStep(w, seen) ==
    /\ \E s \in startTenantSyncerIfNeeded(seen, tasks, goPending) :
          /\ syncer' = IF \E i \in DOMAIN s.evs : s.evs[i].op = "New" THEN s.syncer ELSE syncer
          /\ tasks' = s.tasks
          /\ goPending' = s.goPending
          /\ IF s.err # Nil
             THEN ReturnDeferred(w, s.err,
                      SetStatus(obj[w], "TenantObjsSynced", "False", "FailedStart", s.err),
                      s.evs \o <<CondEv("RemoteSync", "TenantObjsSynced", "False", "FailedStart", s.err)>>,
                      FALSE)
             ELSE \E q \in isTenantObjsSynced :
                    IF q.err # Nil
                    THEN ReturnDeferred(w, q.err,
                             SetStatus(obj[w], "TenantObjsSynced", "False", "NotFound", q.err),
                             s.evs \o q.evs \o
                                 <<CondEv("RemoteSync", "TenantObjsSynced", "False", "NotFound", q.err)>>,
                             FALSE)
                    ELSE Continue(w, "daemonset",
                             SetStatus(obj[w], "TenantObjsSynced", "True", "Created", ""),
                             s.evs \o q.evs \o
                                 <<CondEv("RemoteSync", "TenantObjsSynced", "True", "Created", "")>>)
    /\ UNCHANGED <<mcpStore, mcStore, req, nItems>>

\* ensureTenantObjsSynced, lines 157-168 (called at line 136), with nothing
\* between the read of the handle and the rest of the start.
ensureTenantObjsSynced(w) ==
    /\ UNCHANGED renderVars
    /\ ~crashed
    /\ pc[w] = "tenant"
    /\ TenantStep(w, syncer)

\* Line 222 has found the handle nil; the pass is at lines 226-243, reading
\* the secret.
GateSeenNil(w) ==
    /\ ~crashed
    /\ pc[w] = "tenant"
    /\ syncer = NilSyncer
    /\ pc' = [pc EXCEPT ![w] = "starting"]
    /\ UNCHANGED <<clusterVars, procVars, renderVars, req, nItems, obj, ret, trace>>

\* The pass goes on from line 226 on what it read at line 222.
StartAfterGate(w) ==
    /\ UNCHANGED renderVars
    /\ ~crashed
    /\ pc[w] = "starting"
    /\ TenantStep(w, NilSyncer)

\* The value a panicking pass hands up: the panic unwinds through the deferred
\* flush and ends the process.
Panic == "panic"

\* ensureDeamonSetRunning, lines 170-181 (called at line 140).
ensureDeamonSetRunning(w) ==
    /\ UNCHANGED renderVars
    /\ ~crashed
    /\ pc[w] = "daemonset"
    /\ \E s \in syncOvnkubeDaemonSet(mcpStore) :
          IF s.panic
          THEN ReturnDeferred(w, Panic, obj[w], s.evs, TRUE)
          ELSE IF s.err # Nil
          THEN ReturnDeferred(w, s.err,
                   SetStatus(obj[w], "OvnKubeReady", "False", "FailedCreated", s.err),
                   s.evs \o <<CondEv("Rollout", "OvnKubeReady", "False", "FailedCreated", s.err)>>,
                   FALSE)
          ELSE \E c \in checkDeamonSetState :
                 IF c.err # Nil
                 THEN ReturnDeferred(w, c.err,
                          SetStatus(obj[w], "OvnKubeReady", "False", "Progressing", c.err),
                          s.evs \o c.evs \o
                              <<CondEv("Rollout", "OvnKubeReady", "False", "Progressing", c.err)>>,
                          FALSE)
                 ELSE ReturnDeferred(w, Nil,
                          SetStatus(obj[w], "OvnKubeReady", "True", "Created", ""),
                          s.evs \o c.evs \o
                              <<CondEv("Rollout", "OvnKubeReady", "True", "Created", "")>>,
                          FALSE)
    /\ UNCHANGED <<mcpStore, mcStore, taskVars, req, nItems>>

\* Reconcile has returned to the controller; the worker is free for a request.
Return(w) ==
    /\ UNCHANGED renderVars
    /\ ~crashed
    /\ pc[w] = "done"
    /\ pc' = [pc EXCEPT ![w] = "idle"]
    /\ req' = [req EXCEPT ![w] = Nil]
    /\ nItems' = [nItems EXCEPT ![w] = -1]
    /\ obj' = [obj EXCEPT ![w] = NewCfg(Nil, ValidSpec)]
    /\ ret' = [ret EXCEPT ![w] = Nil]
    /\ trace' = [trace EXCEPT ![w] = <<>>]
    /\ UNCHANGED <<clusterVars, procVars>>

(***************************************************************************)
(* The goroutine of lines 253-257 and the task it runs.                    *)
(***************************************************************************)
\* The goroutine is scheduled: it reads r.syncer and calls Start on it.  With
\* a nil handle the call dereferences nil and the process dies.
GoStart ==
    /\ UNCHANGED renderVars
    /\ ~crashed
    /\ goPending > 0
    /\ goPending' = goPending - 1
    /\ IF syncer = NilSyncer
       THEN crashed' = TRUE /\ tasks' = tasks
       ELSE /\ crashed' = crashed
            /\ \/ tasks' = [tasks EXCEPT ![syncer] = IF @ = "launched" THEN "running" ELSE @]
               \/ tasks' = [tasks EXCEPT ![syncer] = IF @ = "launched" THEN "exited" ELSE @]
    /\ UNCHANGED <<clusterVars, syncer, pc, req, nItems, obj, ret, trace>>

\* Start returns while the task is running (the task ends by itself).
TaskExit(t) ==
    /\ UNCHANGED renderVars
    /\ ~crashed
    /\ tasks[t] = "running"
    /\ tasks' = [tasks EXCEPT ![t] = "exited"]
    /\ UNCHANGED <<clusterVars, syncer, goPending, crashed, pc, req, nItems, obj, ret, trace>>

\* The process is started again after a panic: nothing in memory survives.
Restart ==
    /\ UNCHANGED renderVars
    /\ crashed
    /\ syncer' = NilSyncer
    /\ tasks' = [t \in TaskIds |-> "free"]
    /\ goPending' = 0
    /\ crashed' = FALSE
    /\ pc' = [w \in Workers |-> "idle"]
    /\ req' = [w \in Workers |-> Nil]
    /\ nItems' = [w \in Workers |-> -1]
    /\ obj' = [w \in Workers |-> NewCfg(Nil, ValidSpec)]
    /\ ret' = [w \in Workers |-> Nil]
    /\ trace' = [w \in Workers |-> <<>>]
    /\ UNCHANGED clusterVars

(***************************************************************************)
(* The environment: an operator creates and deletes configuration objects. *)
(* A change made while a pass runs is seen by that pass only through the   *)
(* status write, so the changes are taken between passes.  No pass reads   *)
(* the spec of an object that is not alone in its namespace, so the        *)
(* objects added to a namespace that already holds one carry ValidSpec.    *)
(***************************************************************************)
AllIdle == \A w \in Workers : pc[w] = "idle"

CreateCfg(ns, s) ==
    /\ UNCHANGED renderVars
    /\ ~crashed
    /\ AllIdle
    /\ Len(cfgs[ns]) < MaxCfgs
    /\ Len(cfgs[ns]) > 0 => s = ValidSpec
    /\ cfgs' = [cfgs EXCEPT ![ns] = Append(@, NewCfg(ns, s))]
    /\ UNCHANGED <<mcpStore, mcStore, procVars, pc, req, nItems, obj, ret, trace>>

DeleteCfg(ns, i) ==
    /\ UNCHANGED renderVars
    /\ ~crashed
    /\ AllIdle
    /\ i \in 1..Len(cfgs[ns])
    /\ cfgs' = [cfgs EXCEPT ![ns] = SubSeq(@, 1, i - 1) \o SubSeq(@, i + 1, Len(@))]
    /\ UNCHANGED <<mcpStore, mcStore, procVars, pc, req, nItems, obj, ret, trace>>

(***************************************************************************)
(* Spec: one worker, so passes never overlap; the configuration objects    *)
(* live in one namespace and requests arrive for every namespace.          *)
(***************************************************************************)
HomeNS == "ns1"
Worker == "w1"

Next ==
    \/ \E ns \in NS : Reconcile(Worker, ns)
    \/ validateDPUHostBootstrap(Worker)
    \/ ensureMcpReady(Worker)
    \/ validateTenantKubeConfig(Worker)
    \/ ensureTenantObjsSynced(Worker)
    \/ ensureDeamonSetRunning(Worker)
    \/ Return(Worker)
    \/ GoStart
    \/ \E t \in TaskIds : TaskExit(t)
    \/ Restart
    \/ \E s \in CfgSpecs : CreateCfg(HomeNS, s)
    \/ \E i \in 1..MaxCfgs : DeleteCfg(HomeNS, i)

Spec == Init /\ [][Next]_vars

(***************************************************************************)
(* SpecDbList: the endpoint lists alone.  The tenant cluster answers the   *)
(* pod list with any addresses; lines 294-295 render both lists from them. *)
(***************************************************************************)
RECURSIVE SeqsUpTo(_, _)
SeqsUpTo(S, n) ==
    IF n = 0 THEN {<<>>}
    ELSE LET shorter == SeqsUpTo(S, n - 1)
         IN  shorter \cup { Append(q, x) : q \in shorter, x \in S }

\* getTenantClusterMasterIPs, lines 431-450, when the list call succeeds.
getTenantClusterMasterIPs ==
    /\ \E ips \in SeqsUpTo(PodIPs, MaxMasters) : masterIPs' = ips
    /\ dbLists' = NotRendered
    /\ UNCHANGED <<clusterVars, procVars, passVars>>

\* Lines 294-295.
RenderDbLists ==
    /\ dbLists = NotRendered
    /\ dbLists' = [nb |-> dbList(masterIPs, OVN_NB_PORT), sb |-> dbList(masterIPs, OVN_SB_PORT)]
    /\ UNCHANGED <<clusterVars, procVars, passVars, masterIPs>>

NextDbList == getTenantClusterMasterIPs \/ RenderDbLists

SpecDbList == Init /\ [][NextDbList]_vars

(***************************************************************************)
(* SpecOverlap: two workers on the one reconciler, worker w1 with requests *)
(* for ns1 and worker w2 with requests for ns2, each namespace holding one *)
(* valid object, pool and payload converged.  The two passes interleave    *)
(* freely, line 222 apart from the lines after it; each pass is followed   *)
(* to the end of its Remote-Sync phase (its Rollout phase has not returned *)
(* yet).                                                                   *)
(***************************************************************************)
InitOverlap ==
    /\ cfgs = [ns \in NS |-> <<NewCfg(ns, ValidSpec)>>]
    /\ mcpStore = Mcp(mcSelector, ValidSpec.NodeSelector)
    /\ mcStore = Mc(RenderedRaw, 0)
    /\ FreshProcess
    /\ IdleLocals
    /\ masterIPs = <<>>
    /\ dbLists = NotRendered

\* The namespace of the requests each worker serves.
NsOf == [w1 |-> "ns1", w2 |-> "ns2"]

NextOverlap ==
    \/ \E w \in Workers : Reconcile(w, NsOf[w])
    \/ \E w \in Workers : validateDPUHostBootstrap(w)
    \/ \E w \in Workers : ensureMcpReady(w)
    \/ \E w \in Workers : validateTenantKubeConfig(w)
    \/ \E w \in Workers : ensureTenantObjsSynced(w)
    \/ \E w \in Workers : GateSeenNil(w)
    \/ \E w \in Workers : StartAfterGate(w)
    \/ GoStart
    \/ \E t \in TaskIds : TaskExit(t)
    \/ Restart

SpecOverlap == InitOverlap /\ [][NextOverlap]_vars

(***************************************************************************)
(* SpecLive: one valid object in HomeNS that nobody changes, no pool and   *)
(* no payload yet, one worker.  The controller calls Reconcile again after *)
(* every pass, a pass that has started runs to its end, the goroutine is   *)
(* scheduled, and a process that died is started again.                    *)
(***************************************************************************)
InitLive ==
    /\ cfgs = [ns \in NS |-> IF ns = HomeNS THEN <<NewCfg(ns, ValidSpec)>> ELSE <<>>]
    /\ mcpStore = NoMcp
    /\ mcStore = NoMc
    /\ FreshProcess
    /\ IdleLocals
    /\ masterIPs = <<>>
    /\ dbLists = NotRendered

NextLive ==
    \/ Reconcile(Worker, HomeNS)
    \/ validateDPUHostBootstrap(Worker)
    \/ ensureMcpReady(Worker)
    \/ validateTenantKubeConfig(Worker)
    \/ ensureTenantObjsSynced(Worker)
    \/ ensureDeamonSetRunning(Worker)
    \/ Return(Worker)
    \/ GoStart
    \/ \E t \in TaskIds : TaskExit(t)
    \/ Restart

Fairness ==
    /\ WF_vars(Reconcile(Worker, HomeNS))
    /\ WF_vars(validateDPUHostBootstrap(Worker))
    /\ WF_vars(ensureMcpReady(Worker))
    /\ WF_vars(validateTenantKubeConfig(Worker))
    /\ WF_vars(ensureTenantObjsSynced(Worker))
    /\ WF_vars(ensureDeamonSetRunning(Worker))
    /\ WF_vars(Return(Worker))
    /\ WF_vars(GoStart)
    /\ WF_vars(Restart)

SpecLive == InitLive /\ [][NextLive]_vars /\ Fairness


(***************************************************************************)
(* Reading the trace of a pass.                                            *)
(***************************************************************************)
PhaseRank == [Select |-> 0, NodePool |-> 1, RemoteSync |-> 2, Rollout |-> 3, Flush |-> 4]

IsWrite(e) == e.op \in {"Create", "Update", "Apply"}
IsFailureCond(e) == e.op = "SetStatus" /\ e.arg[1] = "False"
IsReadyCond(e, type) == e.op = "SetStatus" /\ e.kind = type /\ e.arg[1] = "True"
IsStatusUpdate(e) == e.op = "StatusUpdate"
IsSyncerSetup(e) ==
    /\ e.ph = "RemoteSync"
    /\ \/ e.op \in {"New", "Go"}
       \/ e.op = "Get" /\ e.arg = <<"KubeConfigFile">>

Some(t, P(_)) == \E i \in DOMAIN t : P(t[i])
None(t, P(_)) == \A i \in DOMAIN t : ~P(t[i])

\* The events a step of worker w appends to its trace.
NewEvents(w) == SubSeq(trace'[w], Len(trace[w]) + 1, Len(trace'[w]))

\* Worker w leaves position l by a step of its pass.
PhaseStep(w, l) == ~crashed /\ pc[w] = l /\ pc'[w] # l

\* The tasks that were launched and have not been stopped.
LiveTasks == { t \in TaskIds : tasks[t] # "free" }

\* The pool name and the node selector of cs are set.
PoolFieldsSet(cs) == cs.PoolName # "" /\ cs.NodeSelector # ""

\* The error of the first failure the trace of w shows, in the order the code
\* runs its checks and phases; Nil when nothing failed.
FirstFailure(w) ==
    LET t == trace[w]
        cs == obj[w].Spec
        failed == { i \in DOMAIN t : IsFailureCond(t[i]) }
        first == CHOOSE i \in failed : \A j \in failed : i <= j
    IN  IF cs.PoolName = "" THEN ErrPoolName
        ELSE IF cs.NodeSelector = "" THEN ErrNodeSelector
        ELSE IF failed # {} /\ t[first].kind = "McpReady" THEN t[first].arg[3]
        ELSE IF cs.KubeConfigFile = "" THEN ErrNoKubeconfig
        ELSE IF failed # {} THEN t[first].arg[3]
        ELSE Nil

(***************************************************************************)
(* C1: a sync task is constructed and launched only by a pass that finds   *)
(* the handle absent, so at most one task is launched and not stopped; a   *)
(* pass that finds the handle held reads no secret, constructs nothing and *)
(* launches nothing.                                                       *)
(***************************************************************************)
C1_StartedAtMostOnce ==
    /\ [](Cardinality(LiveTasks) <= 1)
    /\ [][\A w \in Workers : PhaseStep(w, "tenant") =>
             /\ syncer # NilSyncer =>
                   /\ None(NewEvents(w), IsSyncerSetup)
                   /\ UNCHANGED taskVars
             /\ (Some(NewEvents(w), IsSyncerSetup) \/ LiveTasks' # LiveTasks)
                   => syncer = NilSyncer]_vars

\* A pass has gone through the start with the handle held: nothing launched.
C1_Witness ==
    /\ pc[Worker] = "daemonset"
    /\ syncer # NilSyncer
    /\ LiveTasks # {}
    /\ None(trace[Worker], IsSyncerSetup)

(***************************************************************************)
(* C2: a pass that lists zero objects stops the task exactly once when a   *)
(* handle is held and leaves the handle absent; it runs no phase, writes   *)
(* no status and returns success; without a handle it does nothing.        *)
(***************************************************************************)
C2_ZeroObjectsStopsTask ==
    [][\A w \in Workers : (PhaseStep(w, "idle") /\ nItems'[w] = 0) =>
          /\ pc'[w] = "done"
          /\ ret'[w] = Nil
          /\ syncer' = NilSyncer
          /\ UNCHANGED <<cfgs, mcpStore, mcStore, obj, goPending>>
          /\ IF syncer # NilSyncer
             THEN /\ trace'[w] = <<Ev("Select", "List", "DpuClusterConfig", "ok"),
                                   Ev("Select", "Stop", "Syncer", "ok")>>
                  /\ tasks' = [tasks EXCEPT ![syncer] = "free"]
             ELSE /\ trace'[w] = <<Ev("Select", "List", "DpuClusterConfig", "ok")>>
                  /\ tasks' = tasks]_vars

\* A pass found no object and stopped the task.
C2_Witness ==
    /\ pc[Worker] = "done"
    /\ nItems[Worker] = 0
    /\ Some(trace[Worker], LAMBDA e : e.op = "Stop")
    /\ syncer = NilSyncer

(***************************************************************************)
(* C3: a pass that lists two or more objects returns a non-nil error.      *)
(***************************************************************************)
C3_MultipleObjectsReturnError ==
    \A w \in Workers : (pc[w] = "done" /\ nItems[w] >= 2) => ret[w] # Nil

(***************************************************************************)
(* C4: a pass that lists two or more objects runs no phase: no create,     *)
(* update or apply call, no condition written on any object, the handle    *)
(* left as it was.                                                         *)
(***************************************************************************)
C4_MultipleObjectsNoPhase ==
    [][\A w \in Workers : (PhaseStep(w, "idle") /\ nItems'[w] >= 2) =>
          /\ pc'[w] = "done"
          /\ trace'[w] = <<Ev("Select", "List", "DpuClusterConfig", "ok")>>
          /\ UNCHANGED <<cfgs, mcpStore, mcStore, obj, taskVars>>]_vars

\* A pass has listed two objects and returned.
C4_Witness ==
    /\ pc[Worker] = "done"
    /\ nItems[Worker] >= 2
    /\ Len(cfgs[req[Worker]]) >= 2


(***************************************************************************)
(* C5: on exactly one object the checks and phases run in the order the    *)
(* code calls them - pool name and node selector validation, Node-Pool,    *)
(* credential reference validation, Remote-Sync, Rollout; each acts only   *)
(* if every earlier one succeeded, nothing acts after the first failure,   *)
(* and the pass returns that first failure's error.                        *)
(***************************************************************************)
C5_PhasesInCodeOrder ==
    \A w \in Workers : nItems[w] = 1 =>
        LET t == trace[w]
            cs == obj[w].Spec
            ReadyBefore(j, type) == \E i \in 1..(j - 1) : IsReadyCond(t[i], type)
        IN  /\ \A i \in 1..(Len(t) - 1) : PhaseRank[t[i].ph] <= PhaseRank[t[i + 1].ph]
            /\ \A j \in DOMAIN t :
                  /\ t[j].ph = "NodePool" => PoolFieldsSet(cs)
                  /\ t[j].ph = "RemoteSync" =>
                        /\ PoolFieldsSet(cs)
                        /\ cs.KubeConfigFile # ""
                        /\ ReadyBefore(j, "McpReady")
                  /\ t[j].ph = "Rollout" =>
                        /\ ReadyBefore(j, "McpReady")
                        /\ ReadyBefore(j, "TenantObjsSynced")
                  /\ IsFailureCond(t[j]) =>
                        \A k \in DOMAIN t : k > j => IsStatusUpdate(t[k])
            /\ (pc[w] = "done" /\ ret[w] # Panic) =>
                  /\ ret[w] = FirstFailure(w)
                  /\ ret[w] = Nil => Some(t, LAMBDA e : IsReadyCond(e, "OvnKubeReady"))

\* A pass failed in the Remote-Sync phase after the phases before it succeeded.
C5_Witness ==
    /\ pc[Worker] = "done"
    /\ nItems[Worker] = 1
    /\ ret[Worker] = ErrNotSynced
    /\ Some(trace[Worker], LAMBDA e : IsReadyCond(e, "McpReady"))
    /\ Some(trace[Worker], LAMBDA e : IsFailureCond(e) /\ e.kind = "TenantObjsSynced")
    /\ None(trace[Worker], LAMBDA e : e.ph = "Rollout")

\* C5 as stated: Validate, with its three rules, precedes the Node-Pool phase,
\* so no later phase acts unless all three rules passed.
C5_ValidateFirst ==
    \A w \in Workers : nItems[w] = 1 =>
        \A j \in DOMAIN trace[w] :
            trace[w][j].ph \in {"NodePool", "RemoteSync", "Rollout"} =>
                /\ PoolFieldsSet(obj[w].Spec)
                /\ obj[w].Spec.KubeConfigFile # ""

C7_ErrorHasCondition ==
    \A w \in Workers : (pc[w] = "done" /\ nItems[w] = 1 /\ ret[w] \notin {Nil, Panic}) =>
        Some(trace[w], LAMBDA e : IsFailureCond(e) /\ e.arg[3] = ret[w])

(***************************************************************************)
(* C8: on every return path of a pass on exactly one object the deferred   *)
(* status write runs exactly once and is the last call of the pass; when   *)
(* it fails the pass still returns what the phases decided.                *)
(***************************************************************************)
C8_StatusWrittenOnceLast ==
    \A w \in Workers : nItems[w] = 1 =>
        LET t == trace[w]
            flushes == { i \in DOMAIN t : IsStatusUpdate(t[i]) }
        IN  IF pc[w] = "done"
            THEN /\ flushes = {Len(t)}
                 /\ ret[w] \in {FirstFailure(w), Panic}
                 /\ t[Len(t)].ok = "ok" => cfgs[req[w]][1].Status = obj[w].Status
            ELSE flushes = {}

\* The status write failed and the pass still returned success.
C8_Witness ==
    /\ pc[Worker] = "done"
    /\ nItems[Worker] = 1
    /\ trace[Worker][Len(trace[Worker])] = Ev("Flush", "StatusUpdate", "DpuClusterConfig", "error")
    /\ ret[Worker] = Nil
    /\ Some(trace[Worker], LAMBDA e : IsReadyCond(e, "OvnKubeReady"))


(***************************************************************************)
(* C9: the Node-Pool phase is idempotent: when a pass has completed it     *)
(* successfully and nothing external changed the pool, the payload or the  *)
(* configuration object, the Node-Pool phase of the next pass issues no    *)
(* create and no update call.  The stored McpReady condition of the object *)
(* is True only after such a pass; nothing else writes pool or payload.    *)
(***************************************************************************)
C9_NodePoolIdempotent ==
    [][\A w \in Workers :
          (PhaseStep(w, "mcp") /\ obj[w].Status["McpReady"].status = "True") =>
              None(NewEvents(w), LAMBDA e : e.op \in {"Create", "Update"})]_vars

(***************************************************************************)
(* C10: when the stored payload decodes to the same tree as the rendered   *)
(* one, whatever the order of its fields, no payload update is issued;     *)
(* when the trees differ exactly one update is issued and it carries the   *)
(* resource version of the stored payload.                                 *)
(***************************************************************************)
C10_UpdateIffTreesDiffer ==
    [][\A w \in Workers : PhaseStep(w, "mcp") =>
          LET n == NewEvents(w)
              found == Some(n, LAMBDA e : e.op = "Get" /\ e.kind = "MachineConfig"
                                            /\ e.ok = "found")
              upd == { i \in DOMAIN n : n[i].op = "Update" /\ n[i].kind = "MachineConfig" }
          IN  /\ found => (upd # {} <=> Unmarshal(mcStore.Raw) # Unmarshal(RenderedRaw))
              /\ upd # {} => found /\ Cardinality(upd) = 1
              /\ \A i \in upd :
                    /\ n[i].arg = <<mcStore.rv>>
                    /\ n[i].ok = "ok" => mcStore' = Mc(RenderedRaw, mcStore.rv + 1)
              /\ (found /\ upd = {}) => mcStore' = mcStore]_vars

\* The stored payload has the rendered fields in the other order and the
\* Node-Pool phase left it alone.
C10_Witness ==
    /\ pc[Worker] = "kubeconfig"
    /\ mcStore = Mc(Reverse(RenderedRaw), 0)
    /\ Reverse(RenderedRaw) # RenderedRaw
    /\ Some(trace[Worker], LAMBDA e : e.op = "Get" /\ e.kind = "MachineConfig" /\ e.ok = "found")
    /\ None(trace[Worker], LAMBDA e : e.op = "Update" /\ e.kind = "MachineConfig")


(***************************************************************************)
(* C11: with the pool name "master" or "worker" the Node-Pool phase        *)
(* returns an error without any create or update of a pool or payload, the *)
(* McpReady condition is set to False, and no later phase runs.            *)
(***************************************************************************)
C11_ReservedPoolRejected ==
    \A w \in Workers : (nItems[w] = 1 /\ obj[w].Spec.PoolName \in {"master", "worker"}) =>
        /\ None(trace[w], IsWrite)
        /\ None(trace[w], LAMBDA e : e.ph \in {"RemoteSync", "Rollout"})
        /\ None(trace[w], LAMBDA e : IsReadyCond(e, "McpReady"))
        /\ pc[w] \in {"validate", "mcp", "done"}
        /\ pc[w] = "done" =>
              /\ ret[w] = ErrReserved
              /\ Some(trace[w], LAMBDA e : e = CondEv("NodePool", "McpReady", "False",
                                                      "FailedCreated", ErrReserved))
              /\ obj[w].Status["McpReady"].status = "False"

\* A pass on an object with the pool name "worker" has returned.
C11_Witness ==
    /\ pc[Worker] = "done"
    /\ nItems[Worker] = 1
    /\ obj[Worker].Spec.PoolName = "worker"
    /\ ret[Worker] = ErrReserved
    /\ obj[Worker].Status["McpReady"].status = "False"


(***************************************************************************)
(* C12: a pass sets OvnKubeReady to True and returns success only if its   *)
(* readiness check found the DaemonSet ovnkube-node with the desired count *)
(* equal to the ready count; when the counts differ, whatever they are,    *)
(* the pass sets OvnKubeReady to False with reason Progressing and returns *)
(* an error.                                                               *)
(***************************************************************************)
IsDaemonSetRead(e) == e.ph = "Rollout" /\ e.op = "Get" /\ e.kind = "DaemonSet" /\ e.ok = "found"

C12_ReadyOnlyWhenCountsEqual ==
    \A w \in Workers : nItems[w] = 1 =>
        LET t == trace[w]
            reads == { i \in DOMAIN t : IsDaemonSetRead(t[i]) }
            ready == { i \in DOMAIN t : IsReadyCond(t[i], "OvnKubeReady") }
        IN  /\ \A i \in ready : \E j \in reads : j < i /\ t[j].arg[1] = t[j].arg[2]
            /\ (pc[w] = "done" /\ ret[w] = Nil) => ready # {}
            /\ ready # {} => (pc[w] = "done" /\ ret[w] = Nil
                                /\ obj[w].Status["OvnKubeReady"].status = "True")
            /\ \A j \in reads : t[j].arg[1] # t[j].arg[2] =>
                  /\ ready = {}
                  /\ pc[w] = "done"
                  /\ ret[w] = ErrRollingOut
                  /\ t[j + 1] = CondEv("Rollout", "OvnKubeReady", "False", "Progressing",
                                       ErrRollingOut)
                  /\ obj[w].Status["OvnKubeReady"] =
                        [status |-> "False", reason |-> "Progressing", msg |-> ErrRollingOut]

\* The readiness check found one node desired and none ready.
C12_Witness ==
    /\ pc[Worker] = "done"
    /\ ret[Worker] = ErrRollingOut
    /\ Some(trace[Worker], LAMBDA e : IsDaemonSetRead(e) /\ e.arg = <<1, 0>>)


(***************************************************************************)
(* C13: the rendered endpoint string is the addresses in list order, each  *)
(* written as "ssl:" + address + ":" + port - an address that contains a   *)
(* colon is written in brackets, "ssl:[" + address + "]:" + port - joined  *)
(* by commas with no trailing separator; the empty list gives the empty    *)
(* string and the number of entries is the length of the list.             *)
(***************************************************************************)
HasColon(ip) == \E i \in DOMAIN ip : ip[i] = ":"
PlainEntry(ip, port) == <<"s", "s", "l", ":">> \o ip \o <<":">> \o port
BracketEntry(ip, port) == <<"s", "s", "l", ":", "[">> \o ip \o <<"]", ":">> \o port

\* The first k entries written one after the other, a comma before each but
\* the first.
RECURSIVE Written(_, _)
Written(entries, k) ==
    IF k = 0 THEN <<>>
    ELSE Written(entries, k - 1) \o (IF k > 1 THEN <<",">> ELSE <<>>) \o entries[k]

Commas(str) == Cardinality({ i \in DOMAIN str : str[i] = "," })

EndpointListIs(out, ips, port, Entry(_, _)) ==
    /\ out = Written([i \in DOMAIN ips |-> Entry(ips[i], port)], Len(ips))
    /\ ips = <<>> <=> out = <<>>
    /\ ips # <<>> =>
          /\ Commas(out) = Len(ips) - 1
          /\ out[Len(out)] # ","
          /\ SubSeq(out, 1, 4) = <<"s", "s", "l", ":">>

C13_EndpointList ==
    dbLists # NotRendered =>
        LET Entry(ip, port) == IF HasColon(ip) THEN BracketEntry(ip, port)
                               ELSE PlainEntry(ip, port)
        IN  /\ EndpointListIs(dbLists.nb, masterIPs, <<"9", "6", "4", "1">>, Entry)
            /\ EndpointListIs(dbLists.sb, masterIPs, <<"9", "6", "4", "2">>, Entry)

\* Both lists are rendered from several addresses, one of them IPv6.
C13_Witness ==
    /\ dbLists # NotRendered
    /\ Len(masterIPs) >= 2
    /\ \E i \in DOMAIN masterIPs : HasColon(masterIPs[i])
    /\ \E i \in DOMAIN masterIPs : ~HasColon(masterIPs[i])

\* C13 as stated: every address is written as "ssl:" + address + ":" + port.
C13_PlainEndpointList ==
    dbLists # NotRendered =>
        /\ EndpointListIs(dbLists.nb, masterIPs, <<"9", "6", "4", "1">>, PlainEntry)
        /\ EndpointListIs(dbLists.sb, masterIPs, <<"9", "6", "4", "2">>, PlainEntry)


(***************************************************************************)
(* C14: the synchronous start of the sync task returns an error only when  *)
(* reading the secret, finding the key 'config', decoding it or            *)
(* constructing the task fails; a failure of the task's own Start never    *)
(* changes the value the synchronous call returns.                         *)
(***************************************************************************)
IsStartFailure(e) ==
    /\ e.ph = "RemoteSync"
    /\ \/ e.op = "Get" /\ e.arg = <<"KubeConfigFile">> /\ e.ok # "found"
       \/ e.op = "New" /\ e.ok # "ok"

C14_StartErrorOnlyFromSetup ==
    \A w \in Workers :
        Some(trace[w], LAMBDA e : IsFailureCond(e) /\ e.arg[2] = "FailedStart")
            => Some(trace[w], IsStartFailure)

(***************************************************************************)
(* C15: when listing the master pods of the remote cluster fails, the      *)
(* Rollout phase fails: OvnKubeReady is set to False, the pass returns an  *)
(* error, and OvnKubeReady is not set to True in that pass.                *)
(***************************************************************************)
IsMasterListFailure(e) == e.ph = "Rollout" /\ e.op = "List" /\ e.kind = "Pod" /\ e.ok = "error"

C15_MasterListFailureFailsRollout ==
    \A w \in Workers : Some(trace[w], IsMasterListFailure) =>
        /\ None(trace[w], LAMBDA e : IsReadyCond(e, "OvnKubeReady"))
        /\ pc[w] = "done" =>
              /\ ret[w] # Nil
              /\ Some(trace[w], LAMBDA e : IsFailureCond(e) /\ e.kind = "OvnKubeReady")

(***************************************************************************)
(* C16: in the Node-Pool phase every failed get, create or update of the   *)
(* pool or of the payload makes the phase fail: it returns an error, sets  *)
(* McpReady to False and never to True in that pass; each call is made at  *)
(* most once in a pass.                                                    *)
(***************************************************************************)
IsNodePoolCall(e) == e.ph = "NodePool" /\ e.op \in {"Get", "Create", "Update"}

C16_NodePoolCallFailureFailsPhase ==
    \A w \in Workers :
        LET t == trace[w]
        IN  /\ \A i, j \in DOMAIN t :
                  (IsNodePoolCall(t[i]) /\ t[i].op = t[j].op /\ t[i].kind = t[j].kind
                      /\ t[i].ph = t[j].ph) => i = j
            /\ Some(t, LAMBDA e : IsNodePoolCall(e) /\ e.ok = "error") =>
                  /\ None(t, LAMBDA e : IsReadyCond(e, "McpReady"))
                  /\ pc[w] # "mcp" =>
                        /\ pc[w] = "done"
                        /\ ret[w] # Nil
                        /\ Some(t, LAMBDA e : IsFailureCond(e) /\ e.kind = "McpReady")


(***************************************************************************)
(* C17: when passes overlap, at most one sync task is launched and not     *)
(* stopped at any time, and every launched, not stopped task is the one    *)
(* the handle refers to.                                                   *)
(***************************************************************************)
C17_SingleTaskUnderOverlap ==
    /\ Cardinality(LiveTasks) <= 1
    /\ \A t \in LiveTasks : syncer = t


(***************************************************************************)
(* C18: the sync task is stopped and its handle cleared only when the      *)
(* configuration object it was started for no longer exists: while the     *)
(* object exists no pass, for whatever namespace, stops the task or clears *)
(* the handle.  The objects of Spec live in HomeNS, so the object the task *)
(* was started for is one of HomeNS.                                       *)
(***************************************************************************)
C18_StoppedOnlyAfterDeletion ==
    [][(~crashed /\ syncer # NilSyncer /\ (syncer' = NilSyncer \/ tasks'[syncer] = "free"))
          => cfgs[HomeNS] = <<>>]_vars


(***************************************************************************)
(* C19: a held handle refers to a live task.  When a pass on the existing  *)
(* object reaches the Remote-Sync phase and finds the handle held by a     *)
(* task whose Start has failed or that has exited, the phase clears the    *)
(* handle or launches a task again, so the system is never left with the   *)
(* handle held, the task dead and the pass skipping the start.             *)
(***************************************************************************)
HandleOfDeadTask == syncer # NilSyncer /\ tasks[syncer] = "exited"

C19_DeadTaskReplaced ==
    [][(/\ ~crashed
        /\ HandleOfDeadTask
        /\ pc[Worker] = "tenant"
        /\ pc'[Worker] # "tenant")
          => (\/ syncer' = NilSyncer
              \/ tasks'[syncer'] \in {"launched", "running"})]_vars

(***************************************************************************)
(* C20: convergence.  With one valid object in the namespace, if no call   *)
(* of a pass ever fails and the manifests render, the three mirrored       *)
(* objects are eventually found from then on and the DaemonSet is          *)
(* eventually found with desired = ready from then on, then under the      *)
(* fairness of SpecLive passes that return nil with the McpReady,          *)
(* TenantObjsSynced and OvnKubeReady conditions all True (and written to   *)
(* the stored object) keep occurring, and from some point on every pass    *)
(* that returns is such a pass.                                            *)
(***************************************************************************)
CallFailed(e) ==
    \/ e.ok \in {"error", "nokey", "undecodable"}
    \/ e.op = "Get" /\ e.arg = <<"KubeConfigFile">> /\ e.ok = "notfound"
    \/ e.op = "SetStatus" /\ e.arg[1] = "False" /\ e.arg[2] = "FailedCreated"

NotMirrored(e) ==
    /\ e.ph = "RemoteSync" /\ e.op = "Get" /\ e.ok = "notfound"
    /\ \E i \in DOMAIN TenantObjs : e.arg = <<TenantObjs[i]>>

NotRolledOut(e) ==
    /\ e.ph = "Rollout" /\ e.op = "Get" /\ e.kind = "DaemonSet"
    /\ \/ e.ok = "notfound"
       \/ e.ok = "found" /\ e.arg[1] # e.arg[2]

EveryCallSucceeds == [](None(trace[Worker], CallFailed))
EventuallyMirrored == <>[](None(trace[Worker], NotMirrored))
EventuallyRolledOut == <>[](None(trace[Worker], NotRolledOut))

PassSucceeded ==
    /\ pc[Worker] = "done"
    /\ req[Worker] = HomeNS
    /\ ret[Worker] = Nil
    /\ \A t \in CondTypes : obj[Worker].Status[t].status = "True"
    /\ cfgs[HomeNS][1].Status = obj[Worker].Status

C20_Converges ==
    (EveryCallSucceeds /\ EventuallyMirrored /\ EventuallyRolledOut)
        => /\ []<>PassSucceeded
           /\ <>[](pc[Worker] = "done" => PassSucceeded)

C20_Witness ==
    /\ PassSucceeded
    /\ syncer # NilSyncer
    /\ tasks[syncer] = "running"
    /\ mcpStore # NoMcp
    /\ mcStore # NoMc

====
